---------------------------- MODULE Spec2Model ----------------------------
(* Model of src/scraper.py: the resumable paginated extraction engine      *)
(* (fetch_and_write_data, main), run repeatedly against one output file    *)
(* and one checkpoint file, with process crashes between any two steps.    *)
(*                                                                         *)
(* Files are modelled by what survives the process: the checkpoint file is *)
(* a text (a sequence of decimal digits, empty after open(..., 'w') has    *)
(* truncated it), the output file is the sequence of items that reached    *)
(* the file; items still in the write buffer of the open handle (pending)  *)
(* are lost by a crash.  One item stands for the header line or for all    *)
(* the rows of one page.                                                   *)
EXTENDS Integers, Sequences, FiniteSets

\* ---------------------------------------------------------------- bounds
MaxPages == 3      \* the listing has 1..MaxPages pages
MaxRuns  == 3      \* number of times the process is started

\* --------------------------------------------------------------- helpers
Range(s) == {s[i] : i \in 1..Len(s)}

Prefix(s, k) == SubSeq(s, 1, k)

Suffix(s, k) == SubSeq(s, k + 1, Len(s))

\* str(n): the decimal digits of n, most significant first (line 113)
RECURSIVE Str(_)
Str(n) == IF n < 10 THEN <<n>> ELSE Str(n \div 10) \o <<n % 10>>

\* int(text) for a non-empty digit text (line 76)
RECURSIVE ParseInt(_)
ParseInt(t) ==
    IF Len(t) = 1 THEN t[1]
    ELSE 10 * ParseInt(Prefix(t, Len(t) - 1)) + t[Len(t)]

\* int('') raises ValueError (line 76)
Parsable(t) == Len(t) > 0

\* the two kinds of line groups of the output file
Header == [kind |-> "header", page |-> 0]

Rows(p) == [kind |-> "rows", page |-> p]

\* pages whose rows are in a sequence of items
PagesIn(items) == {it.page : it \in {x \in Range(items) : x.kind = "rows"}}


\* ------------------------------------------------------------ parse_html
\* Texts are sequences of characters.  A page is the sequence of its
\* <article class="ng-star-inserted"> blocks; a block has the text of its
\* <p class="ecl-u-type-bold"> (if it has one) and its
\* <p class="ecl-u-type-paragraph-m"> paragraphs, each the text of its
\* <span class="ecl-u-type-bold"> (if it has one) followed by a text node.

MaxParas    == 2   \* paragraphs of the varied block
MaxBlocks   == 2   \* blocks of a page
MaxNameSegs == 2   \* ' - ' separated segments of a generated name

Drop(t, k) == SubSeq(t, k + 1, Len(t))

DropLast(t) == SubSeq(t, 1, Len(t) - 1)

StartsWith(t, pat) == Len(t) >= Len(pat) /\ SubSeq(t, 1, Len(pat)) = pat

\* str.strip(chars): leading and trailing characters of the set removed
RECURSIVE StripLeft(_, _)
StripLeft(t, chars) ==
    IF t # << >> /\ Head(t) \in chars THEN StripLeft(Tail(t), chars) ELSE t

RECURSIVE StripRight(_, _)
StripRight(t, chars) ==
    IF t # << >> /\ t[Len(t)] \in chars
    THEN StripRight(DropLast(t), chars) ELSE t

StripChars(t, chars) == StripRight(StripLeft(t, chars), chars)

\* str.strip() and get_text(strip=True) on one text node
Strip(t) == StripChars(t, {" "})

\* ' - ' (lines 40, 51, 53)
Sep == <<" ", "-", " ">>

\* str.split(sep): leftmost, non-overlapping occurrences
RECURSIVE SplitFrom(_, _, _)
SplitFrom(t, sep, cur) ==
    IF t = << >> THEN <<cur>>
    ELSE IF StartsWith(t, sep)
         THEN <<cur>> \o SplitFrom(Drop(t, Len(sep)), sep, << >>)
         ELSE SplitFrom(Tail(t), sep, Append(cur, Head(t)))

Split(t, sep) == SplitFrom(t, sep, << >>)

\* sep.join(parts)
RECURSIVE Join(_, _)
Join(parts, sep) ==
    IF parts = << >> THEN << >>
    ELSE IF Len(parts) = 1 THEN parts[1]
    ELSE parts[1] \o sep \o Join(Tail(parts), sep)

\* str.replace(pat, '', 1)
RECURSIVE ReplaceFirst(_, _)
ReplaceFirst(t, pat) ==
    IF Len(t) < Len(pat) THEN t
    ELSE IF StartsWith(t, pat) THEN Drop(t, Len(pat))
    ELSE <<Head(t)>> \o ReplaceFirst(Tail(t), pat)

UpperCase ==
    <<"A", "B", "C", "D", "E", "F", "G", "H", "I", "J", "K", "L", "M", "N",
     "O", "P", "Q", "R", "S", "T", "U", "V", "W", "X", "Y", "Z">>

LowerCase ==
    <<"a", "b", "c", "d", "e", "f", "g", "h", "i", "j", "k", "l", "m", "n",
     "o", "p", "q", "r", "s", "t", "u", "v", "w", "x", "y", "z">>

\* str.lower() on one character
LowerChar(c) ==
    IF \E i \in 1..26 : UpperCase[i] = c
    THEN LowerCase[CHOOSE i \in 1..26 : UpperCase[i] = c]
    ELSE c

\* `key.lower().replace(' ', '_')` (line 61)
NormalizeKey(key) ==
    [i \in 1..Len(key) |->
        IF LowerChar(key[i]) = " " THEN "_" ELSE LowerChar(key[i])]

\* the literals of lines 29-56 and 100
L_carrier ==
    <<"A", "i", "r", " ", "c", "a", "r", "r", "i", "e", "r", " ", "N", "a",
      "m", "e", " ", "(", "C", "o", "d", "e", ")">>

L_airport ==
    <<"A", "i", "r", "p", "o", "r", "t", " ", "N", "a", "m", "e", " ", "(",
      "C", "o", "d", "e", ")">>

K_permit_id == <<"p", "e", "r", "m", "i", "t", "_", "i", "d">>

K_member_state ==
    <<"m", "e", "m", "b", "e", "r", "_", "s", "t", "a", "t", "e">>

K_air_carrier_name ==
    <<"a", "i", "r", "_", "c", "a", "r", "r", "i", "e", "r", "_", "n", "a",
      "m", "e">>

K_air_carrier_code ==
    <<"a", "i", "r", "_", "c", "a", "r", "r", "i", "e", "r", "_", "c", "o",
      "d", "e">>

K_airport_name ==
    <<"a", "i", "r", "p", "o", "r", "t", "_", "n", "a", "m", "e">>

K_airport_code ==
    <<"a", "i", "r", "p", "o", "r", "t", "_", "c", "o", "d", "e">>

K_airport_country ==
    <<"a", "i", "r", "p", "o", "r", "t", "_", "c", "o", "u", "n", "t", "r",
      "y">>

\* csv_columns (line 100)
Fieldnames ==
    <<K_permit_id, K_member_state, K_air_carrier_name, K_air_carrier_code,
      K_airport_name, K_airport_code, K_airport_country>>

\* dict with no key
EmptyDict == [k \in {} |-> << >>]

\* data[key] = value
Put(data, key, value) ==
    [k \in DOMAIN data \cup {key} |-> IF k = key THEN value ELSE data[k]]

\* a carrier name taken from the first segment
CarrierNameFirst(parts) == Strip(parts[1])

\* `parts[-2].strip()` (line 42)
CarrierName(parts) == Strip(parts[Len(parts) - 1])

\* an airport name taken like the carrier's
AirportNameSecondToLast(parts) == Strip(parts[Len(parts) - 1])

\* `" - ".join(parts[:-1]).strip()` (line 53)
AirportName(parts) == Strip(Join(DropLast(parts), Sep))

\* `parts[-1].strip("()")` (lines 43, 54)
CompositeCode(parts) == StripChars(parts[Len(parts)], {"(", ")"})

\* `span.text[:-1]` (line 35)
KeyOf(p) == DropLast(p.span)

\* `paragraph.get_text(strip=True).replace(span.text, '', 1).strip()`
\* (line 36)
ValueOf(p) == Strip(ReplaceFirst(Strip(p.span) \o Strip(p.text), p.span))

\* a malformed composite stored raw under its normalized label
ParseParaStoresRaw(p, data) ==
    IF ~p.hasSpan THEN data
    ELSE IF KeyOf(p) = L_carrier /\ Len(Split(ValueOf(p), Sep)) >= 2
    THEN Put(Put(data, K_air_carrier_name,
                 CarrierName(Split(ValueOf(p), Sep))),
             K_air_carrier_code, CompositeCode(Split(ValueOf(p), Sep)))
    ELSE IF KeyOf(p) = L_airport /\ Len(Split(ValueOf(p), Sep)) >= 2
    THEN Put(Put(data, K_airport_name, AirportName(Split(ValueOf(p), Sep))),
             K_airport_code, CompositeCode(Split(ValueOf(p), Sep)))
    ELSE Put(data, NormalizeKey(KeyOf(p)), ValueOf(p))

\* lines 32-61 for one paragraph
ParsePara(p, data) ==
    IF ~p.hasSpan THEN data
    ELSE LET key   == KeyOf(p)
             value == ValueOf(p)
             parts == Split(value, Sep)
         IN  IF key = L_carrier
             THEN IF Len(parts) >= 2
                  THEN Put(Put(data, K_air_carrier_name, CarrierName(parts)),
                           K_air_carrier_code, CompositeCode(parts))
                  ELSE data
             ELSE IF key = L_airport
             THEN IF Len(parts) >= 2
                  THEN Put(Put(data, K_airport_name, AirportName(parts)),
                           K_airport_code, CompositeCode(parts))
                  ELSE data
             ELSE Put(data, NormalizeKey(key), value)

\* lines 31-61: the paragraphs of a block in order
RECURSIVE ParseParas(_, _)
ParseParas(paras, data) ==
    IF paras = << >> THEN data
    ELSE ParseParas(Tail(paras), ParsePara(Head(paras), data))

\* lines 26-30: find(...) is None without the element, and
\* None.get_text raises AttributeError
BlockRaises(b) == ~b.hasBold

\* lines 26-61 for a block that has the permit-id element
ParseBlock(b) ==
    ParseParas(b.paras,
               IF Strip(b.bold) # << >>
               THEN Put(EmptyDict, K_permit_id, Strip(b.bold))
               ELSE EmptyDict)

\* lines 25, 63-64: the records of the blocks, empty ones left out
RECURSIVE Records(_)
Records(blocks) ==
    IF blocks = << >> THEN << >>
    ELSE (IF DOMAIN ParseBlock(Head(blocks)) # {}
          THEN <<ParseBlock(Head(blocks))>> ELSE << >>)
         \o Records(Tail(blocks))

\* lines 19-66; an exception in a block ends the call
parse_html(content) ==
    IF \E i \in 1..Len(content) : BlockRaises(content[i])
    THEN [raised |-> TRUE, list |-> << >>]
    ELSE [raised |-> FALSE, list |-> Records(content)]

\* DictWriter._dict_to_list with extrasaction='raise', restval=''
\* (lines 101, 109)
ExtraKeys(rec) == DOMAIN rec \ Range(Fieldnames)

RowOf(rec) ==
    [i \in 1..Len(Fieldnames) |->
        IF Fieldnames[i] \in DOMAIN rec THEN rec[Fieldnames[i]] ELSE << >>]

\* writer.writerows(page_data): rows are written until a record with a
\* key outside fieldnames raises ValueError
RECURSIVE writerows(_)
writerows(list) ==
    IF list = << >> THEN [raised |-> FALSE, rows |-> << >>]
    ELSE IF ExtraKeys(Head(list)) # {}
    THEN [raised |-> TRUE, rows |-> << >>]
    ELSE [raised |-> writerows(Tail(list)).raised,
          rows   |-> <<RowOf(Head(list))>> \o writerows(Tail(list)).rows]

VARIABLES
    listing,          \* number of pages of the listing (the environment)
    runs,             \* processes started so far
    crashes,          \* processes killed so far
    pc,               \* position of the running process, "idle" if none
    runState,         \* how the last/current run stands
    exitCode,         \* exit status of the last ended process, 2 = none yet
    successPrinted,   \* line 136 was printed by the last process
    driverOpen,       \* the rendering session of the run is held
    start_page,       \* local of fetch_and_write_data
    current_page,     \* local of fetch_and_write_data
    checkpoint_file,  \* [exists, text] on disk
    csv_file,         \* [exists, items] on disk
    pending,          \* items in the write buffer of the open csv handle
    csvOpen,          \* the csv handle is open
    appended,         \* pages passed to writer.writerows in this run
    ckptWritten,      \* pages written to the checkpoint in this run
    advances,         \* successful Next clicks in this run
    skipFailure,      \* a Next click of the skip loop failed in this run
    doneBefore,       \* pages appended, checkpointed, on disk before this run
    completed,        \* pages appended and checkpointed by any run so far
    crashedWrote,     \* pages the preceding crashed run had put on disk
    csvAtStart,       \* csv_file when the run started
    ckptAtStart,      \* checkpoint_file when the run started
    html_content,     \* argument of parse_html: the blocks of a page
    page_data,        \* outcome of parse_html: [raised, list]
    written,          \* outcome of writer.writerows: [raised, rows]
    step              \* position of the parse-and-write of one page

vars == <<listing, runs, crashes, pc, runState, exitCode, successPrinted,
          driverOpen, start_page, current_page, checkpoint_file, csv_file,
          pending, csvOpen, appended, ckptWritten, advances, skipFailure,
          doneBefore, completed, crashedWrote, csvAtStart, ckptAtStart>>

parse == <<html_content, page_data, written, step>>
env   == <<listing, parse>>
files == <<checkpoint_file, csv_file>>
hist  == <<appended, ckptWritten, advances, skipFailure>>
snap  == <<doneBefore, crashedWrote, csvAtStart, ckptAtStart>>

NoFile == [exists |-> FALSE, text |-> << >>]

NoCsv == [exists |-> FALSE, items |-> << >>]

NoData == [raised |-> FALSE, list |-> << >>]

NoRows == [raised |-> FALSE, rows |-> << >>]

\* no page is being parsed
ParseIdle ==
    /\ html_content = << >>
    /\ page_data = NoData
    /\ written = NoRows
    /\ step = "none"

Init ==
    /\ listing \in 1..MaxPages
    /\ runs = 0
    /\ crashes = 0
    /\ pc = "idle"
    /\ runState = "NONE"
    /\ exitCode = 2
    /\ successPrinted = FALSE
    /\ driverOpen = FALSE
    /\ start_page = 1
    /\ current_page = 1
    /\ checkpoint_file = NoFile
    /\ csv_file = NoCsv
    /\ pending = << >>
    /\ csvOpen = FALSE
    /\ appended = {}
    /\ ckptWritten = {}
    /\ advances = 0
    /\ skipFailure = FALSE
    /\ doneBefore = {}
    /\ completed = {}
    /\ crashedWrote = {}
    /\ csvAtStart = NoCsv
    /\ ckptAtStart = NoFile
    /\ ParseIdle

\* ------------------------------------------------- pieces of the handlers

\* a skip loop that stops one page short of the resume target
SkipCondStopsShort(cur, start) == cur + 1 < start

\* a skip loop that runs one page past the resume target
SkipCondOvershoots(cur, start) == cur <= start

\* `while current_page < start_page` (line 84)
SkipCond(cur, start) == cur < start

\* an advance that counts two pages for one click
NextPageSkips(cur) == cur + 2

\* `current_page += 1` (lines 92, 123)
NextPage(cur) == cur + 1

\* a checkpoint that records the page after the one just written
CheckpointTextAhead(cur) == Str(cur + 1)

\* `f.write(str(current_page))` (line 113)
CheckpointText(cur) == Str(cur)

\* the Next control is clickable on every page but the last
NextClickable(cur) == cur < listing

\* closing the csv handle flushes the write buffer (end of `with`, line 99)
Closed(file, buf) == [exists |-> file.exists, items |-> file.items \o buf]

\* an uncaught exception inside `try`: the csv handle (if open) is closed,
\* `finally` quits the driver (line 129), the traceback ends the process
\* with status 1 and without the message of line 136
Raise ==
    /\ csv_file' = IF csvOpen THEN Closed(csv_file, pending) ELSE csv_file
    /\ pending' = << >>
    /\ csvOpen' = FALSE
    /\ driverOpen' = FALSE
    /\ runState' = "ERROR"
    /\ exitCode' = 1
    /\ successPrinted' = FALSE
    /\ pc' = "idle"

\* ----------------------------------------------------------------- actions

\* main() calls fetch_and_write_data: the driver is created (line 70)
StartRun ==
    /\ pc = "idle"
    /\ runs < MaxRuns
    /\ runs' = runs + 1
    /\ pc' = "read"
    /\ runState' = "INIT"
    /\ exitCode' = 2
    /\ successPrinted' = FALSE
    /\ driverOpen' = TRUE
    /\ start_page' = 1
    /\ current_page' = 1
    /\ pending' = << >>
    /\ csvOpen' = FALSE
    /\ appended' = {}
    /\ ckptWritten' = {}
    /\ advances' = 0
    /\ skipFailure' = FALSE
    /\ doneBefore' = completed \cap PagesIn(csv_file.items)
    /\ crashedWrote' = IF runState = "CRASHED" THEN crashedWrote ELSE {}
    /\ csvAtStart' = csv_file
    /\ ckptAtStart' = checkpoint_file
    /\ UNCHANGED <<env, crashes, files, completed>>

\* lines 73-76, the checkpoint holds an integer or does not exist
ReadCheckpoint ==
    /\ pc = "read"
    /\ ~checkpoint_file.exists \/ Parsable(checkpoint_file.text)
    /\ start_page' = IF checkpoint_file.exists
                     THEN ParseInt(checkpoint_file.text)
                     ELSE 1
    /\ pc' = "get"
    /\ UNCHANGED <<env, runs, crashes, runState, exitCode, successPrinted,
                   driverOpen, current_page, files, pending, csvOpen,
                   hist, completed, snap>>

\* line 76 on an empty checkpoint file: int('') raises ValueError before
\* the `try` of line 78 is entered, so `finally` does not run
ReadCheckpointFails ==
    /\ pc = "read"
    /\ checkpoint_file.exists
    /\ ~Parsable(checkpoint_file.text)
    /\ runState' = "ERROR"
    /\ exitCode' = 1
    /\ pc' = "idle"
    /\ UNCHANGED <<env, runs, crashes, successPrinted, driverOpen,
                   start_page, current_page, files, pending, csvOpen,
                   hist, completed, snap>>

\* lines 79-83: first page loaded, current_page = 1
LoadFirstPage ==
    /\ pc = "get"
    /\ current_page' = 1
    /\ runState' = "SKIPPING"
    /\ pc' = "skip"
    /\ UNCHANGED <<env, runs, crashes, exitCode, successPrinted, driverOpen,
                   start_page, files, pending, csvOpen, hist, completed,
                   snap>>

\* lines 84-92: one iteration of the skip loop whose click succeeds
SkipAdvance ==
    /\ pc = "skip"
    /\ SkipCond(current_page, start_page)
    /\ NextClickable(current_page)
    /\ current_page' = NextPage(current_page)
    /\ advances' = advances + 1
    /\ UNCHANGED <<env, runs, crashes, pc, runState, exitCode,
                   successPrinted, driverOpen, start_page, files, pending,
                   csvOpen, appended, ckptWritten, skipFailure, completed,
                   snap>>

\* a failed skip iteration that leaves the loop (`break`) for the steady
\* loop instead of returning
SkipFailsBreak ==
    /\ pc = "skip"
    /\ SkipCond(current_page, start_page)
    /\ skipFailure' = TRUE
    /\ pc' = "open"
    /\ UNCHANGED <<env, runs, crashes, runState, exitCode, successPrinted,
                   driverOpen, start_page, current_page, files, pending,
                   csvOpen, appended, ckptWritten, advances, completed,
                   snap>>

\* lines 93-95 and 128-129: the wait or the click raises (no Next control,
\* or a transient failure on any page); return through `finally`
SkipFails ==
    /\ pc = "skip"
    /\ SkipCond(current_page, start_page)
    /\ skipFailure' = TRUE
    /\ driverOpen' = FALSE
    /\ runState' = "FAILED"
    /\ pc' = "returned"
    /\ UNCHANGED <<env, runs, crashes, exitCode, successPrinted, start_page,
                   current_page, files, pending, csvOpen, appended,
                   ckptWritten, advances, completed, snap>>

\* line 84: the loop condition is false, the skip loop is left
SkipExit ==
    /\ pc = "skip"
    /\ ~SkipCond(current_page, start_page)
    /\ pc' = "open"
    /\ UNCHANGED <<env, runs, crashes, runState, exitCode, successPrinted,
                   driverOpen, start_page, current_page, files, pending,
                   csvOpen, hist, completed, snap>>

\* the items written by a call and how many items reach the disk during
\* it: the buffer is flushed when it fills, at a point the sizes decide
WriteItems(items, k) ==
    /\ k \in 0..Len(pending \o items)
    /\ csv_file' = [exists |-> TRUE,
                    items  |-> csv_file.items \o Prefix(pending \o items, k)]
    /\ pending' = Suffix(pending \o items, k)

\* a header written on every open
NeedsHeaderAlways(file) == TRUE

\* `file_exists = os.path.isfile(csv_filename)`, `if not file_exists`
\* (lines 98, 102)
NeedsHeader(file) == ~file.exists

\* lines 98-103: open the csv in append mode, header only if the file
\* did not exist
OpenOutput ==
    /\ pc = "open"
    /\ \E k \in 0..1 :
         WriteItems(IF NeedsHeader(csv_file) THEN <<Header>> ELSE << >>, k)
    /\ csvOpen' = TRUE
    /\ runState' = "STEADY"
    /\ pc' = "extract"
    /\ UNCHANGED <<env, runs, crashes, exitCode, successPrinted, driverOpen,
                   start_page, current_page, checkpoint_file, hist,
                   completed, snap>>

\* line 99 raises (the file cannot be opened for append)
OpenOutputFails ==
    /\ pc = "open"
    /\ Raise
    /\ UNCHANGED <<env, runs, crashes, start_page, current_page,
                   checkpoint_file, hist, completed, snap>>

\* lines 108-109: the rows of the current page go to the csv handle
ExtractAndWrite ==
    /\ pc = "extract"
    /\ \E k \in 0..(MaxPages + 1) : WriteItems(<<Rows(current_page)>>, k)
    /\ appended' = appended \cup {current_page}
    /\ pc' = "ckopen"
    /\ UNCHANGED <<env, runs, crashes, runState, exitCode, successPrinted,
                   driverOpen, start_page, current_page, checkpoint_file,
                   csvOpen, ckptWritten, advances, skipFailure, completed,
                   snap>>

\* line 108 raises (line 27: a block without a permit-id element)
ExtractFails ==
    /\ pc = "extract"
    /\ Raise
    /\ UNCHANGED <<env, runs, crashes, start_page, current_page,
                   checkpoint_file, hist, completed, snap>>

\* line 112: open(checkpoint_file, 'w') creates or truncates the file
OpenCheckpoint ==
    /\ pc = "ckopen"
    /\ checkpoint_file' = [exists |-> TRUE, text |-> << >>]
    /\ pc' = "ckwrite"
    /\ UNCHANGED <<env, runs, crashes, runState, exitCode, successPrinted,
                   driverOpen, start_page, current_page, csv_file, pending,
                   csvOpen, hist, completed, snap>>

\* line 112 raises (the checkpoint file cannot be opened for writing)
OpenCheckpointFails ==
    /\ pc = "ckopen"
    /\ Raise
    /\ UNCHANGED <<env, runs, crashes, start_page, current_page,
                   checkpoint_file, hist, completed, snap>>

\* line 113 and the end of its `with`: the text reaches the file
WriteCheckpoint ==
    /\ pc = "ckwrite"
    /\ checkpoint_file' = [exists |-> TRUE,
                           text   |-> CheckpointText(current_page)]
    /\ ckptWritten' = ckptWritten \cup {current_page}
    /\ completed' = completed \cup {current_page}
    /\ pc' = "advance"
    /\ UNCHANGED <<env, runs, crashes, runState, exitCode, successPrinted,
                   driverOpen, start_page, current_page, csv_file, pending,
                   csvOpen, appended, advances, skipFailure, snap>>

\* lines 116-123: the click succeeds
SteadyAdvance ==
    /\ pc = "advance"
    /\ NextClickable(current_page)
    /\ current_page' = NextPage(current_page)
    /\ advances' = advances + 1
    /\ pc' = "extract"
    /\ UNCHANGED <<env, runs, crashes, runState, exitCode, successPrinted,
                   driverOpen, start_page, files, pending, csvOpen,
                   appended, ckptWritten, skipFailure, completed, snap>>

\* a failed click of the steady loop treated like one of the skip loop
SteadyEndsFailed ==
    /\ pc = "advance"
    /\ csv_file' = Closed(csv_file, pending)
    /\ pending' = << >>
    /\ csvOpen' = FALSE
    /\ driverOpen' = FALSE
    /\ runState' = "FAILED"
    /\ pc' = "returned"
    /\ UNCHANGED <<env, runs, crashes, exitCode, successPrinted, start_page,
                   current_page, checkpoint_file, hist, completed, snap>>

\* lines 124-129: the wait or the click raises (no Next control, or a
\* transient failure on any page); break, the csv is closed, driver quit
SteadyEnds ==
    /\ pc = "advance"
    /\ csv_file' = Closed(csv_file, pending)
    /\ pending' = << >>
    /\ csvOpen' = FALSE
    /\ driverOpen' = FALSE
    /\ runState' = "DONE"
    /\ pc' = "returned"
    /\ UNCHANGED <<env, runs, crashes, exitCode, successPrinted, start_page,
                   current_page, checkpoint_file, hist, completed, snap>>

\* line 136 and the normal end of the process
MainReports ==
    /\ pc = "returned"
    /\ successPrinted' = TRUE
    /\ exitCode' = 0
    /\ pc' = "idle"
    /\ UNCHANGED <<env, runs, crashes, runState, driverOpen, start_page,
                   current_page, files, pending, csvOpen, hist, completed,
                   snap>>

\* the process is killed: what is on disk stays, the write buffer is lost
Crash ==
    /\ pc # "idle"
    /\ crashes' = crashes + 1
    /\ crashedWrote' = appended \ PagesIn(pending)
    /\ pending' = << >>
    /\ csvOpen' = FALSE
    /\ driverOpen' = FALSE
    /\ runState' = "CRASHED"
    /\ pc' = "idle"
    /\ UNCHANGED <<env, runs, exitCode, successPrinted, start_page,
                   current_page, files, hist, doneBefore, completed,
                   csvAtStart, ckptAtStart>>

Next ==
    \/ StartRun
    \/ ReadCheckpoint
    \/ ReadCheckpointFails
    \/ LoadFirstPage
    \/ SkipAdvance
    \/ SkipFails
    \/ SkipExit
    \/ OpenOutput
    \/ OpenOutputFails
    \/ ExtractAndWrite
    \/ ExtractFails
    \/ OpenCheckpoint
    \/ OpenCheckpointFails
    \/ WriteCheckpoint
    \/ SteadyAdvance
    \/ SteadyEnds
    \/ MainReports
    \/ Crash

Spec == Init /\ [][Next]_vars

\* ------------------------------------------- runs without interruption
\* The listing's Next control is clickable exactly on pages 1..L-1, every
\* bounded wait returns, no file operation fails and the process is not
\* killed.  The checkpoint found by the first run is any page number, also
\* one past a listing that has become shorter; the output file found
\* with checkpoint k holds the header and the rows of pages 1..k.

PagesSeq(a, b) ==
    [i \in 1..(IF b >= a THEN b + 1 - a ELSE 0) |-> Rows(a + i - 1)]

LiveInit ==
    /\ listing \in 1..MaxPages
    /\ \E k \in 0..(MaxPages + 1) :
         /\ checkpoint_file = IF k = 0 THEN NoFile
                              ELSE [exists |-> TRUE, text |-> Str(k)]
         /\ csv_file = IF k = 0 THEN NoCsv
                       ELSE [exists |-> TRUE,
                             items  |-> <<Header>> \o PagesSeq(1, k)]
         /\ completed = 1..k
    /\ runs = 0
    /\ crashes = 0
    /\ pc = "idle"
    /\ runState = "NONE"
    /\ exitCode = 2
    /\ successPrinted = FALSE
    /\ driverOpen = FALSE
    /\ start_page = 1
    /\ current_page = 1
    /\ pending = << >>
    /\ csvOpen = FALSE
    /\ appended = {}
    /\ ckptWritten = {}
    /\ advances = 0
    /\ skipFailure = FALSE
    /\ doneBefore = {}
    /\ crashedWrote = {}
    /\ csvAtStart = NoCsv
    /\ ckptAtStart = NoFile
    /\ ParseIdle

\* lines 93-95 when the page shown has no Next control
SkipFailsAtEnd == ~NextClickable(current_page) /\ SkipFails

\* lines 124-126 when the page shown has no Next control
SteadyEndsAtEnd == ~NextClickable(current_page) /\ SteadyEnds

LiveRun ==
    \/ ReadCheckpoint
    \/ LoadFirstPage
    \/ SkipAdvance
    \/ SkipFailsAtEnd
    \/ SkipExit
    \/ OpenOutput
    \/ ExtractAndWrite
    \/ OpenCheckpoint
    \/ WriteCheckpoint
    \/ SteadyAdvance
    \/ SteadyEndsAtEnd
    \/ MainReports

LiveNext == StartRun \/ LiveRun

\* a started process keeps executing: single thread, every wait bounded
LiveSpec == LiveInit /\ [][LiveNext]_vars /\ WF_vars(LiveRun)

TypeOK ==
    /\ listing \in 1..MaxPages
    /\ runs \in 0..MaxRuns
    /\ current_page \in 1..MaxPages
    /\ start_page \in 1..MaxPages
    /\ pending = << >> \/ csvOpen

\* ------------------------------------------- one page parsed and written
\* parse_html and writer.writerows applied to a page drawn from bounded
\* sets of blocks, labels and values.

Para(span, text) == [hasSpan |-> TRUE, span |-> span, text |-> text]

NoSpanPara(text) == [hasSpan |-> FALSE, span |-> << >>, text |-> text]

Block(bold, paras) == [hasBold |-> TRUE, bold |-> bold, paras |-> paras]

NoBoldBlock(paras) == [hasBold |-> FALSE, bold |-> << >>, paras |-> paras]

\* label texts as rendered, with their colon
S_carrier == L_carrier \o <<":">>

S_airport == L_airport \o <<":">>

S_member_state ==
    <<"M", "e", "m", "b", "e", "r", " ", "S", "t", "a", "t", "e", ":">>

S_status == <<"S", "t", "a", "t", "u", "s", ":">>

\* the texts the pages are built from
W_b_a == <<"B", " ", "A">>

W_x_y == <<"X", "-", "Y">>

W_m == <<"(", "M", ")">>

W_ba == <<"B", "A">>

W_f_r == <<"F", "-", "R">>

W_p_ba == <<"(", "B", "A", ")">>

W_p1 == <<"P", "1">>

W_p2 == <<"P", "2">>

W_de == <<" ", "D", "E">>

W_ok == <<" ", "o", "k">>

W_text == <<"o", "k">>

\* segments of generated names, and generated codes
NameWords == {W_b_a, W_x_y, W_m}

Codes == {W_ba, W_f_r, << >>}

NameSeqs == UNION {[1..k -> NameWords] : k \in 1..MaxNameSegs}

\* '<Name> - (<Code>)'
WellFormed(ns, c) == Join(ns, Sep) \o Sep \o <<"(">> \o c \o <<")">>

\* one token, empty, no parentheses, empty name, two spaces before the
\* separator, doubled parentheses
OddValues ==
    {W_x_y, << >>, W_b_a \o Sep \o W_ba, Sep \o W_p_ba,
     W_b_a \o <<" ">> \o Sep \o W_p_ba,
     W_b_a \o Sep \o <<"(">> \o W_p_ba \o <<")">>}

CompositeValues ==
    {WellFormed(ns, c) : ns \in NameSeqs, c \in Codes} \cup OddValues

\* a block whose carrier and airport paragraphs carry the same value
ValuePage(v) ==
    <<Block(W_p1, <<Para(S_carrier, <<" ">> \o v),
                              Para(S_airport, <<" ">> \o v)>>)>>

ParaPool ==
    {Para(S_carrier, <<" ">> \o W_x_y),
     Para(S_carrier, <<" ">> \o WellFormed(<<W_b_a>>, W_ba)),
     Para(S_airport, W_x_y),
     Para(S_airport, WellFormed(<<W_b_a, W_x_y>>, W_f_r)),
     Para(S_member_state, W_de),
     Para(S_status, W_ok),
     NoSpanPara(W_text)}

ParaSeqs == UNION {[1..k -> ParaPool] : k \in 0..MaxParas}

VariedBlocks ==
    {NoBoldBlock(ps) : ps \in ParaSeqs}
    \cup {Block(b, ps) : b \in {<<" ">>, W_p1}, ps \in ParaSeqs}

OtherBlocks ==
    {Block(<< >>, << >>),
     Block(W_p2, << >>),
     Block(W_p2, <<Para(S_member_state, W_de),
                           Para(S_carrier, WellFormed(<<W_x_y>>, W_ba))>>)}

OtherSeqs == UNION {[1..k -> OtherBlocks] : k \in 0..(MaxBlocks - 1)}

InsertAt(blocks, i, b) == Prefix(blocks, i) \o <<b>> \o Suffix(blocks, i)

StructPages ==
    {InsertAt(o[1], o[2], b) :
        o \in {x \in OtherSeqs \X (0..MaxBlocks) : x[2] <= Len(x[1])},
        b \in VariedBlocks}

Pages == StructPages \cup {ValuePage(v) : v \in CompositeValues}

engine == <<listing, runs, crashes, pc, runState, exitCode, successPrinted,
            driverOpen, start_page, current_page, checkpoint_file, csv_file,
            pending, csvOpen, appended, ckptWritten, advances, skipFailure,
            doneBefore, completed, crashedWrote, csvAtStart, ckptAtStart>>

\* fetch_and_parse_page has the page source (lines 14-17); the engine is
\* at rest
ParseInit ==
    /\ html_content \in Pages
    /\ page_data = NoData
    /\ written = NoRows
    /\ step = "fetched"
    /\ listing = 1
    /\ runs = 0
    /\ crashes = 0
    /\ pc = "idle"
    /\ runState = "NONE"
    /\ exitCode = 2
    /\ successPrinted = FALSE
    /\ driverOpen = FALSE
    /\ start_page = 1
    /\ current_page = 1
    /\ checkpoint_file = NoFile
    /\ csv_file = NoCsv
    /\ pending = << >>
    /\ csvOpen = FALSE
    /\ appended = {}
    /\ ckptWritten = {}
    /\ advances = 0
    /\ skipFailure = FALSE
    /\ doneBefore = {}
    /\ completed = {}
    /\ crashedWrote = {}
    /\ csvAtStart = NoCsv
    /\ ckptAtStart = NoFile

\* line 108 (lines 14-66)
ParseHtml ==
    /\ step = "fetched"
    /\ page_data' = parse_html(html_content)
    /\ step' = "parsed"
    /\ UNCHANGED <<engine, html_content, written>>

\* line 109
WriteRows ==
    /\ step = "parsed"
    /\ ~page_data.raised
    /\ written' = writerows(page_data.list)
    /\ step' = "written"
    /\ UNCHANGED <<engine, html_content, page_data>>

ParseNext == ParseHtml \/ WriteRows

ParseSpec == ParseInit /\ [][ParseNext]_vars

\* ------------------------------------------------------------ properties

\* the integer a run would read from the checkpoint file as it is now
HasValue(f) == f.exists /\ Parsable(f.text)

Value(f) == ParseInt(f.text)

\* the run was ended by the code, not by a crash
Ended == pc = "idle" /\ runState \in {"DONE", "FAILED", "ERROR"}

\* positions from the end of the skip loop through the steady loop
PastSkip == pc \in {"open", "extract", "ckopen", "ckwrite", "advance"}

\* C1: a page whose rows an earlier run appended (they are in the output
\* file) and whose checkpoint that run persisted, and every page before it,
\* is not appended again by a later run.
C1_NoRevisitOfCheckpointedPages ==
    \A n \in doneBefore : \A p \in appended : p > n

\* C2: whenever the checkpoint file holds the value N, the rows of page N
\* are in the output file itself (not merely in the write buffer of the
\* open handle), in every state, crashed or not.
C2_CheckpointOnlyAfterDurableRows ==
    HasValue(checkpoint_file) =>
        Value(checkpoint_file) \in PagesIn(csv_file.items)

\* C3: after runs that were all ended by crashes, a run that reaches DONE
\* at the last page of the listing leaves the rows of every page 1..L in
\* the output file.
C3_NoDataLostByInterruption ==
    (runState = "DONE" /\ crashes = runs - 1 /\ ~NextClickable(current_page))
        => \A p \in 1..listing : p \in PagesIn(csv_file.items)

\* C4: the run restarted after a crash appends at most one page whose rows
\* the crashed run had already put in the output file.
C4_ReworkAtMostOnePage ==
    runState # "CRASHED" => Cardinality(appended \cap crashedWrote) <= 1

\* C5: a crash never leaves the checkpoint file with a content that the
\* next run cannot parse as an integer.
C5_CheckpointWriteAllOrNothing ==
    runState = "CRASHED" =>
        (checkpoint_file.exists => Parsable(checkpoint_file.text))

\* C6: the run resumes at start_page = the persisted checkpoint k (1 when
\* there is no checkpoint file): it enters the steady loop with
\* current_page = k after exactly k-1 successful advances, and appends no
\* rows and writes no checkpoint for a page below k.
C6_Resumption ==
    /\ pc \in {"get", "skip"} =>
         start_page = IF checkpoint_file.exists
                      THEN Value(checkpoint_file) ELSE 1
    /\ (pc = "open" \/ (pc = "extract" /\ appended = {})) =>
         (current_page = start_page /\ advances = start_page - 1)
    /\ \A p \in appended \cup ckptWritten : p >= start_page

C6_Witness ==
    /\ pc = "extract"
    /\ appended = {}
    /\ ckptAtStart.exists
    /\ current_page = 3
    /\ advances = 2

\* C7: once a Next click of the skip phase has failed, the run is FAILED,
\* it has not entered the steady loop, and the output file and the
\* checkpoint file are as they were before the run, from then on.
C7_FatalSkipFailure ==
    skipFailure =>
        /\ runState \in {"FAILED", "CRASHED"}
        /\ pc \in {"returned", "idle"}
        /\ appended = {} /\ ckptWritten = {} /\ ~csvOpen
        /\ csv_file = csvAtStart
        /\ checkpoint_file = ckptAtStart

C7_Witness ==
    /\ skipFailure
    /\ pc = "idle"
    /\ runState = "FAILED"
    /\ csvAtStart.exists
    /\ current_page = 2
    /\ start_page = 3

\* C8: an ended process reports success (exit status 0, the completion
\* message) exactly when its run ended by end-of-listing in the steady
\* loop; a run failed in the skip phase or by an I/O error reports failure.
C8_OutcomeDistinguishesFailure ==
    Ended => /\ (exitCode = 0) <=> (runState = "DONE")
             /\ successPrinted <=> (runState = "DONE")

\* C9: whenever fetch_and_write_data has ended (returned or raised) after
\* the session was acquired, the session has been released.
C9_SessionReleasedOnEveryExit ==
    (pc = "returned" \/ Ended) => ~driverOpen

\* C10: from the initialisation of the page cursor on, through the skip
\* phase and the steady loop, the persisted checkpoint value is at most
\* current_page.
C10_CheckpointLeCursor ==
    ((pc = "skip" \/ PastSkip) /\ HasValue(checkpoint_file)) =>
        Value(checkpoint_file) <= current_page

\* C10 as amended: the bound holds from the end of the skip loop on;
\* during the skip loop the cursor is below the checkpoint.
C10_CheckpointLeCursorPastSkip ==
    /\ (PastSkip /\ HasValue(checkpoint_file)) =>
         Value(checkpoint_file) <= current_page
    /\ (pc = "skip" /\ HasValue(checkpoint_file)
           /\ SkipCond(current_page, start_page)) =>
         Value(checkpoint_file) > current_page

C10_Witness ==
    /\ pc = "extract"
    /\ start_page = 2
    /\ current_page = 3
    /\ HasValue(checkpoint_file)
    /\ Value(checkpoint_file) = 2

\* number of header lines in a sequence of items
HeaderCount(items) ==
    Cardinality({i \in 1..Len(items) : items[i].kind = "header"})

\* what the output file holds once the open handle is flushed
Output == csv_file.items \o pending

\* C11: a run that opens an output file which already holds a header and
\* rows appends no second header; after any sequence of runs the output
\* holds the header at most once.
C11_IdempotentHeader ==
    /\ HeaderCount(Output) <= 1
    /\ HeaderCount(csvAtStart.items) = 1 =>
         Output = csvAtStart.items \o
                  SubSeq(Output, Len(csvAtStart.items) + 1, Len(Output))
    /\ (HeaderCount(csvAtStart.items) = 1 /\ pc # "idle") =>
         \A i \in (Len(csvAtStart.items) + 1)..Len(Output) :
             Output[i].kind = "rows"

C11_Witness ==
    /\ pc = "advance"
    /\ runs >= 2
    /\ HeaderCount(csvAtStart.items) = 1
    /\ PagesIn(csvAtStart.items) # {}
    /\ Len(csv_file.items) > Len(csvAtStart.items)

\* C12: a run that finds the output file absent or empty writes the
\* header before any data row, so the first line of a non-empty output
\* is the header.
C12_HeaderWhenAbsentOrEmpty ==
    Output # << >> => Output[1] = Header

\* C13: a failed Next click of the steady loop ends the run in DONE, not
\* FAILED, with the current page's rows appended and its checkpoint
\* written, and the ended run appends, checkpoints and navigates no more.
C13_EndOfListingTermination ==
    /\ [](((pc = "returned" /\ ~skipFailure) => runState = "DONE")
          /\ (runState = "DONE" =>
                /\ pc \in {"returned", "idle"}
                /\ ~csvOpen /\ pending = << >> /\ ~driverOpen
                /\ current_page \in appended
                /\ current_page \in ckptWritten
                /\ Rows(current_page) \in Range(csv_file.items)
                /\ HasValue(checkpoint_file)
                /\ Value(checkpoint_file) = current_page))
    /\ [][(runState = "DONE" /\ runState' = "DONE") =>
             UNCHANGED <<files, hist, pending, current_page>>]_vars

C13_Witness ==
    /\ runState = "DONE"
    /\ pc = "idle"
    /\ NextClickable(current_page)
    /\ start_page = 2

Max(S) == CHOOSE x \in S : \A y \in S : y <= x

\* C19: within a run the cursor changes only by +1 with a successful
\* advance; the run's checkpoint writes are start, start+1, ... in order,
\* none skipped or repeated; over all runs the persisted checkpoint value
\* is the highest ever written, so it never decreases.
C19_MonotoneProgress ==
    /\ [](/\ HasValue(checkpoint_file) =>
               (completed # {} /\ Value(checkpoint_file) = Max(completed))
          /\ ckptWritten # {} =>
               /\ ckptWritten = start_page..Max(ckptWritten)
               /\ Max(ckptWritten) \in {current_page, current_page - 1})
    /\ [][/\ current_page' # current_page =>
               \/ pc = "idle" /\ pc' = "read"
               \/ /\ pc # "idle"
                  /\ current_page' = current_page + 1
                  /\ advances' = advances + 1
          /\ (pc # "idle" /\ ckptWritten' # ckptWritten) =>
               \E v \in 1..(MaxPages + 2) :
                   /\ v \notin ckptWritten
                   /\ ckptWritten' = ckptWritten \cup {v}
                   /\ v = IF ckptWritten = {} THEN start_page
                          ELSE Max(ckptWritten) + 1
                   /\ checkpoint_file'.text = Str(v)
          /\ (HasValue(checkpoint_file) /\ HasValue(checkpoint_file')) =>
               Value(checkpoint_file') >= Value(checkpoint_file)]_vars

C19_Witness ==
    /\ runs >= 2
    /\ pc = "advance"
    /\ start_page = 2
    /\ ckptWritten = {2, 3}
    /\ HasValue(ckptAtStart)

\* C20: with Next clickable exactly on pages 1..L-1 and every wait
\* returning, every run terminates: with start <= L in DONE, having
\* appended pages start..L in order, each once, checkpoint = L; with
\* start > L in FAILED in the skip phase after L-1 advances.
C20_Termination ==
    /\ [](/\ runState = "DONE" =>
               /\ start_page <= listing
               /\ current_page = listing
               /\ csv_file.items =
                    csvAtStart.items
                    \o (IF NeedsHeader(csvAtStart) THEN <<Header>> ELSE << >>)
                    \o PagesSeq(start_page, listing)
               /\ ckptWritten = start_page..listing
               /\ HasValue(checkpoint_file)
               /\ Value(checkpoint_file) = listing
          /\ runState = "FAILED" =>
               /\ start_page > listing
               /\ skipFailure
               /\ advances = listing - 1
               /\ appended = {})
    /\ (pc # "idle") ~> (pc = "idle" /\ runState \in {"DONE", "FAILED"})

C20_Witness ==
    /\ runState = "DONE"
    /\ pc = "idle"
    /\ start_page = 2
    /\ listing = 3
    /\ runs = 1

\* --------------------------------------------- properties of parse_html

Parsed == step \in {"parsed", "written"}

\* the text holds ' - ' somewhere
HasSeparator(v) ==
    \E i \in 1..Len(v) : i + 2 <= Len(v) /\ SubSeq(v, i, i + 2) = Sep

\* the paragraph is labelled `label`
Labelled(p, label) == p.hasSpan /\ KeyOf(p) = label

\* the block has a permit-id element with a non-empty text
HasPermit(b) == b.hasBold /\ Strip(b.bold) # << >>

\* the block has something to extract: a permit id, a labelled plain
\* paragraph, or a composite paragraph with a separator
YieldsField(b) ==
    \/ HasPermit(b)
    \/ \E k \in 1..Len(b.paras) :
         /\ b.paras[k].hasSpan
         /\ KeyOf(b.paras[k]) \in {L_carrier, L_airport} =>
              HasSeparator(ValueOf(b.paras[k]))

\* position in the result of the record of block i
RecIndex(i) == Cardinality({j \in 1..i : YieldsField(html_content[j])})

CompositeKeys(label) ==
    IF label = L_carrier THEN {K_air_carrier_name, K_air_carrier_code}
    ELSE {K_airport_name, K_airport_code}

\* the block's paragraphs labelled `label`: there are some, all without
\* separator
MalformedOnly(b, label) ==
    /\ \E k \in 1..Len(b.paras) : Labelled(b.paras[k], label)
    /\ \A k \in 1..Len(b.paras) :
         Labelled(b.paras[k], label) => ~HasSeparator(ValueOf(b.paras[k]))

NotLabelledCarrier(p) == ~Labelled(p, L_carrier)

NotLabelledAirport(p) == ~Labelled(p, L_airport)

\* the block without its paragraphs labelled `label`
WithoutParas(b, label) ==
    [b EXCEPT !.paras = IF label = L_carrier
                        THEN SelectSeq(b.paras, NotLabelledCarrier)
                        ELSE SelectSeq(b.paras, NotLabelledAirport)]

\* the block has exactly one paragraph labelled `label`
TheOnly(b, label) ==
    Cardinality({k \in 1..Len(b.paras) : Labelled(b.paras[k], label)}) = 1

ValueAt(b, label) ==
    ValueOf(b.paras[CHOOSE k \in 1..Len(b.paras) :
                        Labelled(b.paras[k], label)])

\* parts are the segments of v between its ' - ' separators
SegmentsOf(parts, v) ==
    /\ Join(parts, Sep) = v
    /\ \A k \in 1..Len(parts) : ~HasSeparator(parts[k])

\* C14: writerows writes one row per record that parse_html returned,
\* seven cells in the fixed order with empty cells for absent fields, and
\* never fails because of the keys of a record.
C14_OneRowPerRecord ==
    step = "written" =>
        /\ ~written.raised
        /\ Len(written.rows) = Len(page_data.list)
        /\ \A i \in 1..Len(written.rows) :
             /\ Len(written.rows[i]) = 7
             /\ \A c \in 1..7 :
                  written.rows[i][c] =
                      IF Fieldnames[c] \in DOMAIN page_data.list[i]
                      THEN page_data.list[i][Fieldnames[c]]
                      ELSE << >>

\* C15: parse_html never fails on a block without fields (no permit-id
\* element or an empty permit id, and no labelled paragraph): it returns
\* as many records as there are blocks with at least one field.
C15_EmptyBlockNotFatal ==
    Parsed =>
        /\ ~page_data.raised
        /\ Len(page_data.list) =
             Cardinality({i \in 1..Len(html_content) :
                             YieldsField(html_content[i])})

\* C16: in a block whose carrier (airport) value has no ' - ', the record
\* has neither the name nor the code of that composite, and the result of
\* the page is what it is without the malformed paragraph: permit id,
\* other fields and other blocks are unaffected.
C16_MalformedCompositeRecovery ==
    (Parsed /\ ~page_data.raised) =>
        \A label \in {L_carrier, L_airport} :
        \A i \in 1..Len(html_content) :
            MalformedOnly(html_content[i], label) =>
                /\ page_data =
                     parse_html([html_content EXCEPT
                         ![i] = WithoutParas(html_content[i], label)])
                /\ YieldsField(html_content[i]) =>
                     /\ RecIndex(i) \in 1..Len(page_data.list)
                     /\ CompositeKeys(label) \cap
                          DOMAIN page_data.list[RecIndex(i)] = {}
                     /\ HasPermit(html_content[i]) =>
                          page_data.list[RecIndex(i)][K_permit_id] =
                              Strip(html_content[i].bold)

C16_Witness ==
    /\ Parsed
    /\ ~page_data.raised
    /\ Len(html_content) = 2
    /\ MalformedOnly(html_content[2], L_carrier)
    /\ HasPermit(html_content[2])
    /\ Len(page_data.list) = 2
    /\ DOMAIN page_data.list[2] = {K_permit_id, K_member_state}

\* C17: for a carrier value with n >= 2 segments the name is the
\* second-to-last segment and the code the last one without its
\* parentheses; '<Name> - (<Code>)' gives Name's last segment and Code.
C17_CarrierDecomposition ==
    (Parsed /\ ~page_data.raised) =>
        \A i \in 1..Len(html_content) :
            (TheOnly(html_content[i], L_carrier)
               /\ HasSeparator(ValueAt(html_content[i], L_carrier))) =>
            LET v == ValueAt(html_content[i], L_carrier)
                r == page_data.list[RecIndex(i)]
            IN  /\ \E parts \in {Split(v, Sep)} :
                     /\ SegmentsOf(parts, v)
                     /\ Len(parts) >= 2
                     /\ r[K_air_carrier_name] = Strip(parts[Len(parts) - 1])
                     /\ r[K_air_carrier_code] =
                          StripChars(parts[Len(parts)], {"(", ")"})
                /\ \A ns \in NameSeqs, c \in Codes :
                     v = WellFormed(ns, c) =>
                         /\ r[K_air_carrier_name] = ns[Len(ns)]
                         /\ r[K_air_carrier_code] = c

C17_Witness ==
    /\ Parsed
    /\ html_content = ValuePage(WellFormed(<<W_b_a, W_x_y>>, W_ba))
    /\ page_data.list[1][K_air_carrier_name] = W_x_y

\* C18: for an airport value with n >= 2 segments the name is all
\* segments but the last joined with ' - ' and the code the last one
\* without its parentheses; for '<Name> - (<Code>)', also with ' - '
\* inside Name, name + ' - (' + code + ')' is the value again.
C18_AirportDecomposition ==
    (Parsed /\ ~page_data.raised) =>
        \A i \in 1..Len(html_content) :
            (TheOnly(html_content[i], L_airport)
               /\ HasSeparator(ValueAt(html_content[i], L_airport))) =>
            LET v == ValueAt(html_content[i], L_airport)
                r == page_data.list[RecIndex(i)]
            IN  /\ \E parts \in {Split(v, Sep)} :
                     /\ SegmentsOf(parts, v)
                     /\ Len(parts) >= 2
                     /\ r[K_airport_name] =
                          Strip(Join(Prefix(parts, Len(parts) - 1), Sep))
                     /\ r[K_airport_code] =
                          StripChars(parts[Len(parts)], {"(", ")"})
                /\ \A ns \in NameSeqs, c \in Codes :
                     v = WellFormed(ns, c) =>
                         /\ r[K_airport_name] = Join(ns, Sep)
                         /\ r[K_airport_code] = c
                         /\ r[K_airport_name] \o Sep \o <<"(">>
                              \o r[K_airport_code] \o <<")">> = v

C18_Witness ==
    /\ Parsed
    /\ html_content = ValuePage(WellFormed(<<W_b_a, W_x_y>>, W_f_r))
    /\ page_data.list[1][K_airport_name] = W_b_a \o Sep \o W_x_y
    /\ page_data.list[1][K_airport_code] = W_f_r

=============================================================================
